---- MODULE Spec2Model ----
(***************************************************************************)
(* Model of the acronym matcher (AcronymSearcher) and of the switcher's    *)
(* merge of acronym results into the standard suggestions.                 *)
(*                                                                         *)
(* A string is a sequence of UTF-16 code units, each written as a TLA+     *)
(* string.  The code units used are                                        *)
(*   "m" "d" "i"   lower-case letters            [a-z]                     *)
(*   "D"           an upper-case letter          [A-Z]                     *)
(*   "1"           a digit                       [0-9]                     *)
(*   "-" " " "_"   delimiters                                              *)
(*   "."           the dot (delimiter and extension separator)             *)
(*   "Idot"        U+0130, LATIN CAPITAL LETTER I WITH DOT ABOVE, the one  *)
(*                 code unit whose toLowerCase() is two code units:        *)
(*   "cdot"        U+0307, COMBINING DOT ABOVE ("Idot" lower-cases to      *)
(*                 "i" "cdot").                                            *)
(* A score is an exact rational <<num, den>>, den > 0 (the code computes   *)
(* it in IEEE doubles; every comparison made below is between values that  *)
(* are equal or differ by far more than the rounding error).               *)
(***************************************************************************)
EXTENDS Integers, Sequences, FiniteSets, TLC

\* ------------------------------------------------------------------ bounds
MaxLen == 4
MaxQueryLen == 2
MaxPadCore == 3
PadLen == 300
MaxFallbackLen == 2
MaxFiles == 52
MaxStandard == 2

\* -------------------------------------------------------------- characters
LowerChars == {"m", "d", "i"}
UpperChars == {"D"}
DigitChars == {"1"}
SpaceChars == {" "}
DelimChars == SpaceChars \cup {"-", "_", "."}

IsLetter(c) == c \in LowerChars \cup UpperChars
IsDigit(c) == c \in DigitChars

\* String.prototype.toLowerCase on one code unit: a sequence of code units.
LowerOfChar(c) ==
  IF c = "D" THEN <<"d">>
  ELSE IF c = "Idot" THEN <<"i", "cdot">>
  ELSE <<c>>

\* String.prototype.toLowerCase: the code units' lower cases, concatenated
\* (by halves, so that the evaluation depth is logarithmic in the length).
RECURSIVE toLowerCase(_)
toLowerCase(s) ==
  IF s = <<>> THEN <<>>
  ELSE IF Len(s) = 1 THEN LowerOfChar(s[1])
  ELSE LET h == Len(s) \div 2
       IN toLowerCase(SubSeq(s, 1, h)) \o toLowerCase(SubSeq(s, h + 1, Len(s)))

RECURSIVE TrimStart(_)
TrimStart(s) ==
  IF s # <<>> /\ Head(s) \in SpaceChars THEN TrimStart(Tail(s)) ELSE s

RECURSIVE TrimEnd(_)
TrimEnd(s) ==
  IF s # <<>> /\ s[Len(s)] \in SpaceChars
  THEN TrimEnd(SubSeq(s, 1, Len(s) - 1)) ELSE s

trim(s) == TrimEnd(TrimStart(s))

\* null / undefined, as a value that is no string of the alphabet
Null == <<"null">>
IsNullish(s) == s = Null
\* JavaScript truthiness of a string-or-null value
Truthy(s) == ~IsNullish(s) /\ s # <<>>

\* ------------------------------------------------------------- constructor
NormalizeQueryNoTrim(q) == toLowerCase(IF IsNullish(q) THEN <<>> ELSE q)
\* this.query = (query ?? '').trim().toLowerCase()
NormalizeQuery(q) == toLowerCase(trim(IF IsNullish(q) THEN <<>> ELSE q))

\* ------------------------------------------------------------ extractWords
\* The k-th smallest element of a set of positions.
Kth(S, k) == CHOOSE p \in S : Cardinality({q \in S : q < p}) = k - 1

\* The pieces of s that start at the positions starts and end at the positions
\* ends (as many of each, the k-th start before the k-th end), in order.
Pieces(s, starts, ends) ==
  [k \in 1..Cardinality(starts) |-> SubSeq(s, Kth(starts, k), Kth(ends, k))]

\* s.split(sep) for a one-character separator: the parts between the
\* separators, empty ones kept.
SplitOn(s, sep) ==
  LET seps == {i \in 1..Len(s) : s[i] = sep}
      edge(k) == IF k = 0 THEN 0
                 ELSE IF k > Cardinality(seps) THEN Len(s) + 1
                 ELSE Kth(seps, k)
  IN [k \in 1..(Cardinality(seps) + 1) |-> SubSeq(s, edge(k - 1) + 1, edge(k) - 1)]

RECURSIVE Join(_, _)
Join(parts, sep) ==
  IF parts = <<>> THEN <<>>
  ELSE IF Len(parts) = 1 THEN parts[1]
  ELSE parts[1] \o <<sep>> \o Join(Tail(parts), sep)

\* s.split(/[\s\-_.]+/).filter(Boolean): the maximal runs of non-delimiters.
SplitDelims(s) ==
  Pieces(s,
    {i \in 1..Len(s) : s[i] \notin DelimChars /\ (i = 1 \/ s[i - 1] \in DelimChars)},
    {i \in 1..Len(s) : s[i] \notin DelimChars /\ (i = Len(s) \/ s[i + 1] \in DelimChars)})

\* (?<=[a-z])(?=[A-Z]) | (?<=[A-Za-z])(?=[0-9]) | (?<=[0-9])(?=[A-Za-z])
CamelBoundary(a, b) ==
  \/ a \in LowerChars /\ b \in UpperChars
  \/ IsLetter(a) /\ IsDigit(b)
  \/ IsDigit(a) /\ IsLetter(b)

\* segment.split(camelPattern).filter(Boolean): the segment cut at every
\* zero-width boundary; segment is non-empty.
SplitCamel(s) ==
  Pieces(s,
    {i \in 1..Len(s) : i = 1 \/ CamelBoundary(s[i - 1], s[i])},
    {i \in 1..Len(s) : i = Len(s) \/ CamelBoundary(s[i], s[i + 1])})

RECURSIVE CamelAll(_)
CamelAll(segments) ==
  IF segments = <<>> THEN <<>>
  ELSE SplitCamel(segments[1]) \o CamelAll(Tail(segments))

\* all is filename.split('.'); the last part is popped as the extension when
\* there is more than one part.
extractWords(filename) ==
  IF ~Truthy(filename) THEN <<>>
  ELSE
    LET Words(all) ==
          LET extension == IF Len(all) > 1 THEN all[Len(all)] ELSE <<>>
              parts == IF Len(all) > 1 THEN SubSeq(all, 1, Len(all) - 1) ELSE all
              nameWithoutExt == Join(parts, ".")
              WithExtension(words) ==
                IF extension # <<>> THEN Append(words, extension) ELSE words
          IN WithExtension(CamelAll(SplitDelims(nameWithoutExt)))
    IN Words(SplitOn(filename, "."))

\* -------------------------------------------------- createSearchableString
RECURSIVE createSearchableString(_)
createSearchableString(words) ==
  IF words = <<>> THEN <<>>
  ELSE LowerOfChar(words[1][1]) \o createSearchableString(Tail(words))

\* ----------------------------------------------------------------- indexOf
OccursAt(hay, needle, i) ==
  /\ i + Len(needle) <= Len(hay)
  /\ \A j \in 1..Len(needle) : hay[i + j] = needle[j]

indexOfLast(hay, needle) ==
  LET hits == {i \in 0..Len(hay) : OccursAt(hay, needle, i)}
  IN IF hits = {} THEN -1 ELSE CHOOSE i \in hits : \A j \in hits : i >= j

\* hay.indexOf(needle): the least 0-based offset of an occurrence, or -1
indexOf(hay, needle) ==
  LET hits == {i \in 0..Len(hay) : OccursAt(hay, needle, i)}
  IN IF hits = {} THEN -1 ELSE CHOOSE i \in hits : \A j \in hits : i <= j

\* ---------------------------------------------------------- calculateScore
Max(a, b) == IF a >= b THEN a ELSE b

\* filename.toLowerCase().endsWith('.md')
EndsWithMd(filename) ==
  LET low == toLowerCase(filename)
  IN Len(low) >= 3 /\ SubSeq(low, Len(low) - 2, Len(low)) = <<".", "m", "d">>

\* rationals <<num, den>>, den > 0
Less(x, y) == x[1] * y[2] < y[1] * x[2]
Leq(x, y) == x[1] * y[2] <= y[1] * x[2]
Same(x, y) == x[1] * y[2] = y[1] * x[2]
Floor == <<1, 10>>
Zero == <<0, 1>>

\* The score before the final Math.max(0.1, score), in units of 1 / (100 * n),
\* n = Math.max(totalLetters, 1):
\*   1 + 3 [matchIndex = 0] + 2 [query.length > 1] + 2 [isBasename]
\*     + (queryLength / n) * 2 + 2 [queryLength = totalLetters]
\*     - Math.max(0, filename.length - 15) * 0.02 + 0.5 [.md]
\*     - matchIndex * 0.1
RawScore(query, searchableString, matchIndex, filename, isBasename) ==
  LET queryLength == Len(query)
      totalLetters == Len(searchableString)
      n == Max(totalLetters, 1)
  IN <<   100 * n
        + (IF matchIndex = 0 THEN 300 * n ELSE 0)
        + (IF queryLength > 1 THEN 200 * n ELSE 0)
        + (IF isBasename THEN 200 * n ELSE 0)
        + 200 * queryLength
        + (IF queryLength = totalLetters THEN 200 * n ELSE 0)
        - 2 * n * Max(0, Len(filename) - 15)
        + (IF EndsWithMd(filename) THEN 50 * n ELSE 0)
        - 10 * n * matchIndex,
        100 * n >>

\* Math.max(0.1, score)
AtLeastFloor(score) == IF Less(score, Floor) THEN Floor ELSE score

calculateScoreNoBasename(query, searchableString, matchIndex, filename, isBasename) ==
  AtLeastFloor(RawScore(query, searchableString, matchIndex, filename, FALSE))

calculateScoreNoPrefix(query, searchableString, matchIndex, filename, isBasename) ==
  AtLeastFloor(RawScore(query, searchableString, 1, filename, isBasename))

\* return Math.max(0.1, score)
calculateScore(query, searchableString, matchIndex, filename, isBasename) ==
  AtLeastFloor(RawScore(query, searchableString, matchIndex, filename, isBasename))

\* -------------------------------------------------------------- searchText
\* The loop of searchText that maps the matched words to character spans:
\*   for (i = 0; i < words.length && queryIndex < query.length; i++)
\* i is 0-based, as in the code.
RECURSIVE SpanLoop(_, _, _, _, _, _, _)
SpanLoop(words, matchIndex, queryLength, i, charIndex, queryIndex, matches) ==
  IF ~(i < Len(words) /\ queryIndex < queryLength) THEN matches
  ELSE
    LET word == words[i + 1]
        hit == i >= matchIndex /\ i < matchIndex + queryLength
        after == charIndex + Len(word) + (IF i < Len(words) - 1 THEN 1 ELSE 0)
    IN SpanLoop(words, matchIndex, queryLength, i + 1, after,
                IF hit THEN queryIndex + 1 ELSE queryIndex,
                IF hit THEN Append(matches, <<charIndex, charIndex + 1>>)
                       ELSE matches)

\* { match: null, score: 0 }
NoMatch == [matched |-> FALSE, score |-> Zero, matchScore |-> Zero, matches |-> <<>>]

\* matched is "match is not null"; matchScore and matches are match.score and
\* match.matches.
searchText(query, text, isBasename) ==
  IF query = <<>> \/ ~Truthy(text) THEN NoMatch
  ELSE
    LET Found(score, matches) ==
          [matched |-> TRUE, score |-> score, matchScore |-> score,
           matches |-> matches]
        At(words, searchableString, matchIndex) ==
          IF matchIndex = -1 THEN NoMatch
          ELSE Found(calculateScore(query, searchableString, matchIndex, text, isBasename),
                     SpanLoop(words, matchIndex, Len(query), 0, 0, 0, <<>>))
        In(words, searchableString) ==
          At(words, searchableString, indexOf(searchableString, query))
        Of(words) == In(words, createSearchableString(words))
    IN Of(extractWords(text))

\* get hasSearchTerm(): !!this.query.length
hasSearchTerm(query) == Len(query) # 0

\* ------------------------------------------------------ searchWithFallback
\* pathSegments: present is FALSE for a missing (undefined / null) argument.
NoSegments == [present |-> FALSE, basename |-> <<>>, path |-> <<>>]
Segments(basename, path) == [present |-> TRUE, basename |-> basename, path |-> path]

Attempt(query, text, isBasename) ==
  [text |-> text, isBasename |-> isBasename,
   result |-> searchText(query, text, isBasename)]

\* The calls of searchText that searchWithFallback makes, in order, each with
\* its arguments and its result.
FallbackAttemptsPathFirst(query, primaryText, pathSegments) ==
  LET Third(first, second) ==
        IF ~second.result.matched
        THEN <<first, second, Attempt(query, pathSegments.basename, TRUE)>>
        ELSE <<first, second>>
      Second(first) ==
        IF ~first.result.matched /\ pathSegments.present
        THEN Third(first, Attempt(query, pathSegments.path, FALSE))
        ELSE <<first>>
  IN Second(Attempt(query, primaryText, TRUE))

FallbackAttempts(query, primaryText, pathSegments) ==
  LET Third(first, second) ==
        IF ~second.result.matched
        THEN <<first, second, Attempt(query, pathSegments.path, FALSE)>>
        ELSE <<first, second>>
      Second(first) ==
        IF ~first.result.matched /\ pathSegments.present
        THEN Third(first, Attempt(query, pathSegments.basename, TRUE))
        ELSE <<first>>
  IN Second(Attempt(query, primaryText, TRUE))

Last(s) == s[Len(s)]

\* return result: the result of the last call made
searchWithFallback(query, primaryText, pathSegments) ==
  Last(FallbackAttempts(query, primaryText, pathSegments)).result

\* ---------------------------------------------------------------- switcher
\* const maxAcronymResults = 50
maxAcronymResults == 50

\* A TFile: name, basename (the name without its extension) and path.
NoFile == [name |-> <<>>, basename |-> <<>>, path |-> <<>>]

\* A suggestion.  hasFile is "'file' in result && result.file"; matchType and
\* matchText are the optional properties performAcronymSearch sets.
FileSuggestion(file, match) ==
  [type |-> "file", hasFile |-> TRUE, file |-> file, match |-> match,
   matchType |-> "basename", matchText |-> file.name]

\* acronymResults.sort((a, b) => (b.match?.score || 0) - (a.match?.score || 0)):
\* Array.prototype.sort is stable, so equal scores keep their order.  rank[i] is
\* the place of xs[i]: one more than the number of elements that go before it.
SortByScore(xs) ==
  LET n == Len(xs)
      Place(rank) == [k \in 1..n |-> xs[CHOOSE i \in 1..n : rank[i] = k]]
  IN Place(SubSeq([i \in 1..n |->
                     Cardinality({j \in 1..n :
                        \/ Less(xs[i].match.score, xs[j].match.score)
                        \/ j < i /\ Same(xs[i].match.score, xs[j].match.score)}) + 1],
                  1, n))

Min(a, b) == IF a <= b THEN a ELSE b

\* The suggestions of the files that match, in the vault's order.
AcronymMatches(query, allFiles) ==
  SelectSeq([i \in 1..Len(allFiles) |->
               FileSuggestion(allFiles[i],
                 searchWithFallback(query, allFiles[i].name,
                   Segments(allFiles[i].basename, allFiles[i].path)))],
            LAMBDA sugg : sugg.match.matched)

\* .slice(0, n)
Slice(xs, n) == SubSeq(xs, 1, Min(n, Len(xs)))

\* query is the constructor's argument; allFiles is this.app.vault.getFiles().
performAcronymSearch(query, allFiles) ==
  Slice(SortByScore(AcronymMatches(NormalizeQuery(query), allFiles)), maxAcronymResults)

mergeSearchResultsNoDedup(standardResults, acronymResults) ==
  standardResults \o acronymResults

mergeSearchResults(standardResults, acronymResults) ==
  LET existingFilePaths ==
        {standardResults[i].file.path :
           i \in {j \in 1..Len(standardResults) : standardResults[j].hasFile}}
      uniqueAcronymResults ==
        SelectSeq(acronymResults, LAMBDA sugg : sugg.file.path \notin existingFilePaths)
  IN standardResults \o uniqueAcronymResults

\* query is exMode.inputTextForStandardMode(input), results is
\* super.getSuggestions(query), allFiles is the vault's files.
getSuggestions(query, results, enableAcronymSearch, allFiles) ==
  IF enableAcronymSearch /\ Truthy(query) /\ Len(trim(query)) > 0
  THEN mergeSearchResults(results, performAcronymSearch(trim(query), allFiles))
  ELSE results

\* ------------------------------------------------------------------ inputs
RECURSIVE SeqsUpTo(_, _)
SeqsUpTo(S, n) ==
  IF n = 0 THEN {<<>>}
  ELSE LET shorter == SeqsUpTo(S, n - 1)
       IN shorter \cup {Append(s, c) : s \in {t \in shorter : Len(t) = n - 1}, c \in S}

TextAlphabet == {"m", "D", "1", "-", ".", "Idot"}
QueryAlphabet == {"m", "D", " "}
FallbackAlphabet == {"m", "D"}

Repeat(c, n) == [i \in 1..n |-> c]

\* The texts given to searchText: every short text, the shortest ones followed
\* by a long run of letters (a long file name or path), and null.
ShortTexts == SeqsUpTo(TextAlphabet, MaxLen)
LongTexts == {core \o Repeat("m", PadLen) : core \in SeqsUpTo(TextAlphabet, MaxPadCore)}
Texts == ShortTexts \cup LongTexts \cup {Null}

\* The constructor's arguments.
RawQueries == SeqsUpTo(QueryAlphabet, MaxQueryLen) \cup {Null}

\* The arguments of searchWithFallback.
FallbackTexts == SeqsUpTo(FallbackAlphabet, MaxFallbackLen) \cup {Null}
FallbackSegments ==
  {NoSegments} \cup {Segments(b, p) : b \in FallbackTexts, p \in FallbackTexts}

\* The vault's files: the k-th file created is the note named by the k-th stem
\* over StemChars (shortest first), every third one in the folder "D1".
StemChars == <<"m", "D", "-", "1">>

RECURSIVE NthStem(_)
NthStem(k) ==
  IF k = 0 THEN <<>>
  ELSE NthStem((k - 1) \div Len(StemChars)) \o <<StemChars[((k - 1) % Len(StemChars)) + 1]>>

NthFile(k) ==
  LET name == NthStem(k) \o <<".", "m", "d">>
  IN [name |-> name, basename |-> NthStem(k),
      path |-> (IF k % 3 = 0 THEN <<"D", "1", "/">> ELSE <<>>) \o name]

\* What super.getSuggestions returns: a list of at most MaxStandard
\* suggestions, each for one of the first MaxStandard files of the vault or for
\* no file (an unresolved link).
StandardFileSuggestion(file) ==
  [type |-> "file", hasFile |-> TRUE, file |-> file, match |-> NoMatch,
   matchType |-> "none", matchText |-> <<>>]
UnresolvedSuggestion ==
  [type |-> "unresolved", hasFile |-> FALSE, file |-> NoFile, match |-> NoMatch,
   matchType |-> "none", matchText |-> <<>>]
StandardResults(allFiles) ==
  SeqsUpTo({UnresolvedSuggestion} \cup
           {StandardFileSuggestion(allFiles[i]) :
              i \in 1..Min(MaxStandard, Len(allFiles))},
           MaxStandard)

\* What exMode.inputTextForStandardMode returns.
SwitcherQueries ==
  {Null, <<" ">>, <<"m">>, <<"D", " ">>, <<"D", "1">>}

\* ------------------------------------------------------------------- state
VARIABLES
  query,      \* AcronymSearcher.query, set by the constructor
  blankArg,   \* whether the constructor's argument was empty, blank or null
  call,       \* the searcher call that has just returned: arguments and result
  vault,      \* this.app.vault.getFiles()
  enableAcronymSearch,  \* plugin.options.enableAcronymSearch
  shown       \* the getSuggestions call that has just returned

vars == <<query, blankArg, call, vault, enableAcronymSearch, shown>>

NoCall ==
  [op |-> "none", text |-> <<>>, isBasename |-> FALSE, pathSegments |-> NoSegments,
   attempts |-> <<>>, result |-> NoMatch]

NoSuggestions == [op |-> "none", query |-> <<>>, results |-> <<>>, merged |-> <<>>]

IsBlank(q) == IsNullish(q) \/ \A i \in 1..Len(q) : q[i] \in SpaceChars

\* new AcronymSearcher(q), nothing called yet
Init ==
  /\ \E q \in RawQueries :
       /\ query = NormalizeQuery(q)
       /\ blankArg = IsBlank(q)
  /\ call = NoCall
  /\ vault = <<>>
  /\ enableAcronymSearch = FALSE
  /\ shown = NoSuggestions

SearchTextIn(texts) ==
  /\ call.op = "none"
  /\ \E text \in texts, isBasename \in BOOLEAN :
       call' = [op |-> "searchText", text |-> text, isBasename |-> isBasename,
                pathSegments |-> NoSegments,
                attempts |-> <<>>,
                result |-> searchText(query, text, isBasename)]
  /\ UNCHANGED <<query, blankArg, vault, enableAcronymSearch, shown>>

SearchText == SearchTextIn(Texts)

SearchOneText == SearchTextIn(FallbackTexts)

SearchWithFallback ==
  /\ call.op = "none"
  /\ \E primaryText \in FallbackTexts, pathSegments \in FallbackSegments :
       call' = [op |-> "searchWithFallback", text |-> primaryText, isBasename |-> TRUE,
                pathSegments |-> pathSegments,
                attempts |-> FallbackAttempts(query, primaryText, pathSegments),
                result |-> searchWithFallback(query, primaryText, pathSegments)]
  /\ UNCHANGED <<query, blankArg, vault, enableAcronymSearch, shown>>

\* The caller has consumed the result.
Return ==
  /\ call.op # "none"
  /\ call' = NoCall
  /\ UNCHANGED <<query, blankArg, vault, enableAcronymSearch, shown>>

Next == SearchText \/ Return

Spec == Init /\ [][Next]_vars

NextFallback == SearchOneText \/ SearchWithFallback \/ Return

SpecFallback == Init /\ [][NextFallback]_vars

\* The switcher: a vault that grows, the setting, and getSuggestions.
InitSwitcher ==
  /\ query = <<>>
  /\ blankArg = TRUE
  /\ call = NoCall
  /\ vault = <<>>
  /\ enableAcronymSearch \in BOOLEAN
  /\ shown = NoSuggestions

CreateFile ==
  /\ shown.op = "none"
  /\ Len(vault) < MaxFiles
  /\ vault' = Append(vault, NthFile(Len(vault) + 1))
  /\ UNCHANGED <<query, blankArg, call, enableAcronymSearch, shown>>

GetSuggestions ==
  /\ shown.op = "none"
  /\ \E q \in SwitcherQueries, results \in StandardResults(vault) :
       shown' = [op |-> "getSuggestions", query |-> q, results |-> results,
                 merged |-> getSuggestions(q, results, enableAcronymSearch, vault)]
  /\ UNCHANGED <<query, blankArg, call, vault, enableAcronymSearch>>

Rendered ==
  /\ shown.op # "none"
  /\ shown' = NoSuggestions
  /\ UNCHANGED <<query, blankArg, call, vault, enableAcronymSearch>>

NextSwitcher == CreateFile \/ GetSuggestions \/ Rendered

SpecSwitcher == InitSwitcher /\ [][NextSwitcher]_vars

\* ------------------------------------------------------------------ claims
\* The initials string of a text: the lower-cased first characters of its
\* words, in order.
Initials(text) == createSearchableString(extractWords(text))

\* The 0-based offsets at which q occurs in s as a contiguous substring.
Occurrences(s, q) ==
  {i \in 0..(Len(s) - Len(q)) : \A j \in 1..Len(q) : s[i + j] = q[j]}

Least(S) == CHOOSE i \in S : \A j \in S : i <= j

RECURSIVE TotalLength(_, _)
TotalLength(words, n) ==
  IF n = 0 THEN 0 ELSE Len(words[n]) + TotalLength(words, n - 1)

\* The running offset of the word at 0-based index i: the lengths of the words
\* before it, plus one character for each of them.
RunningOffset(words, i) == TotalLength(words, i) + i

Searched == call.op = "searchText" /\ query # <<>> /\ Truthy(call.text)

\* C1: for a non-empty query and a non-empty text, searchText matches exactly
\* when the query occurs as a contiguous substring of the text's initials
\* string, and the score and the spans are those of the leftmost occurrence.
C1_MatchIffContiguousInitials ==
  Searched =>
    LET words == extractWords(call.text)
        occ == Occurrences(Initials(call.text), query)
    IN /\ call.result.matched <=> occ # {}
       /\ call.result.matched =>
            /\ call.result.score =
                 calculateScore(query, Initials(call.text), Least(occ),
                                call.text, call.isBasename)
            /\ Len(call.result.matches) =
                 Max(0, Min(Least(occ) + Len(query), Len(words)) - Least(occ))
            /\ \A j \in 1..Len(call.result.matches) :
                 call.result.matches[j][1] = RunningOffset(words, Least(occ) + j - 1)

\* C1 witness: a match on a text whose initials hold the query more than
\* once, the first time after the first word.
C1_Witness ==
  /\ Searched
  /\ call.result.matched
  /\ Cardinality(Occurrences(Initials(call.text), query)) >= 2
  /\ Least(Occurrences(Initials(call.text), query)) > 0

\* C3 (as stated): every result is No Match (match null, score 0) or a Match
\* with a score of at least 0.1, match.score equal to the score and at least
\* one span.
C3_TwoOutcomes ==
  call.op # "none" =>
    \/ call.result = NoMatch
    \/ /\ call.result.matched
       /\ Leq(Floor, call.result.score)
       /\ call.result.matchScore = call.result.score
       /\ call.result.matches # <<>>

\* C5 (as stated): a match with isBasename = true scores strictly higher than
\* the same text searched with isBasename = false.
C5_BasenameStrictlyHigher ==
  (Searched /\ call.result.matched /\ call.isBasename) =>
    Less(searchText(query, call.text, FALSE).score, call.result.score)

\* C5 (amended): a match with isBasename = true never scores lower than the
\* same text searched with isBasename = false, and scores strictly higher
\* whenever its own score is above the floor of 0.1.
C5_BasenameHigherAboveFloor ==
  (Searched /\ call.result.matched /\ call.isBasename) =>
    /\ Leq(searchText(query, call.text, FALSE).score, call.result.score)
    /\ Less(Floor, call.result.score) =>
         Less(searchText(query, call.text, FALSE).score, call.result.score)

\* C5 witness: a basename match above the floor on a text long enough for the
\* length penalty to apply.
C5_Witness ==
  /\ Searched /\ call.result.matched /\ call.isBasename
  /\ Less(Floor, call.result.score)
  /\ Len(call.text) > PadLen

\* C6 (as stated): with everything else the same, the score of a match at
\* matchIndex 0 is strictly higher than the score at a matchIndex k > 0.
C6_PrefixStrictlyHigher ==
  (Searched /\ call.result.matched /\ indexOf(Initials(call.text), query) > 0) =>
    Less(call.result.score,
         calculateScore(query, Initials(call.text), 0, call.text, call.isBasename))

\* C6 (amended): with everything else the same, the score at matchIndex 0 is
\* never lower than the score at a matchIndex k > 0, and is strictly higher
\* whenever the score at matchIndex 0 is above the floor of 0.1.
C6_PrefixHigherAboveFloor ==
  (Searched /\ call.result.matched /\ indexOf(Initials(call.text), query) > 0) =>
    LET atZero == calculateScore(query, Initials(call.text), 0, call.text, call.isBasename)
    IN /\ Leq(call.result.score, atZero)
       /\ Less(Floor, atZero) => Less(call.result.score, atZero)

\* C6 witness: a match after the first word, on a text long enough for the
\* length penalty to apply, whose score at matchIndex 0 is above the floor.
C6_Witness ==
  /\ Searched /\ call.result.matched
  /\ indexOf(Initials(call.text), query) > 0
  /\ Len(call.text) > PadLen
  /\ Less(Floor, calculateScore(query, Initials(call.text), 0, call.text, call.isBasename))

\* C9 (as stated): a Match has exactly one span per character of the query,
\* in strictly increasing order; the span of the word at index i is
\* (s, s + 1), s being the running offset of that word.
C9_OneSpanPerMatchedWord ==
  (Searched /\ call.result.matched) =>
    LET words == extractWords(call.text)
        matchIndex == indexOf(Initials(call.text), query)
        matches == call.result.matches
    IN /\ Len(matches) = Len(query)
       /\ \A j \in 1..Len(matches) :
            /\ matchIndex + j - 1 < Len(words)
            /\ matches[j] = <<RunningOffset(words, matchIndex + j - 1),
                              RunningOffset(words, matchIndex + j - 1) + 1>>
       /\ \A j \in 1..(Len(matches) - 1) : matches[j][1] < matches[j + 1][1]

\* C10 (as stated): every span of a Match is a character range of the text
\* that was searched.
C10_SpansInsideText ==
  (Searched /\ call.result.matched) =>
    \A j \in 1..Len(call.result.matches) :
      /\ 0 <= call.result.matches[j][1]
      /\ call.result.matches[j][1] < call.result.matches[j][2]
      /\ call.result.matches[j][2] <= Len(call.text)

\* C2: a searcher constructed with an empty, blank or null query has no search
\* term, and every searchText and searchWithFallback returns No Match with a
\* score of exactly 0.
C2_BlankQueryIsInert ==
  blankArg =>
    /\ ~hasSearchTerm(query)
    /\ call.op # "none" =>
         /\ ~call.result.matched
         /\ call.result.score = Zero
         /\ call.result = NoMatch

\* C2 witness: searchWithFallback has returned from a searcher with a blank
\* query, called with a non-empty text and non-empty path segments.
C2_Witness ==
  /\ blankArg
  /\ call.op = "searchWithFallback"
  /\ Truthy(call.text)
  /\ call.pathSegments.present
  /\ Truthy(call.pathSegments.basename)
  /\ Truthy(call.pathSegments.path)

\* C4: searchWithFallback returns the result of the first successful attempt
\* among searchText(primaryText, true), searchText(basename, true) and
\* searchText(path, false); the later attempts are made only after the earlier
\* ones failed and only with pathSegments supplied; the result is No Match
\* exactly when every attempt made failed; a null or empty candidate is a
\* failed attempt.
C4_FirstSuccessInFixedOrder ==
  call.op = "searchWithFallback" =>
    LET a == call.attempts
        segs == call.pathSegments
        primary == searchText(query, call.text, TRUE)
        basename == searchText(query, segs.basename, TRUE)
        path == searchText(query, segs.path, FALSE)
    IN /\ call.result =
            IF primary.matched \/ ~segs.present THEN primary
            ELSE IF basename.matched THEN basename
            ELSE path
       /\ Len(a) \in 1..3
       /\ a[1].text = call.text /\ a[1].isBasename
       /\ Len(a) >= 2 =>
            /\ segs.present /\ ~a[1].result.matched
            /\ a[2].text = segs.basename /\ a[2].isBasename
       /\ Len(a) = 3 =>
            /\ ~a[2].result.matched
            /\ a[3].text = segs.path /\ ~a[3].isBasename
       /\ Len(a) < 3 => a[Len(a)].result.matched \/ ~segs.present
       /\ call.result.matched <=> \E i \in 1..Len(a) : a[i].result.matched
       /\ \A i \in 1..Len(a) : ~Truthy(a[i].text) => a[i].result = NoMatch

\* C4 witness: the primary text is null, the basename fails and the path
\* matches.
C4_Witness ==
  /\ call.op = "searchWithFallback"
  /\ IsNullish(call.text)
  /\ Len(call.attempts) = 3
  /\ Truthy(call.pathSegments.basename)
  /\ call.result.matched

\* getSuggestions has returned from the acronym branch.
Merged ==
  /\ shown.op = "getSuggestions"
  /\ enableAcronymSearch
  /\ Truthy(shown.query)
  /\ trim(shown.query) # <<>>

\* What getSuggestions appended to the standard results.
Appended == SubSeq(shown.merged, Len(shown.results) + 1, Len(shown.merged))

StandardPaths ==
  {shown.results[i].file.path :
     i \in {j \in 1..Len(shown.results) : shown.results[j].hasFile}}

AcronymResultOf(file) ==
  searchWithFallback(NormalizeQuery(trim(shown.query)), file.name,
                     Segments(file.basename, file.path))

\* C7: the merged list is the standard results, unchanged and in order,
\* followed only by acronym results; no appended result is for a file the
\* standard results hold, and no file is appended twice.
C7_StandardFirstNoDuplicates ==
  Merged =>
    /\ Len(shown.merged) >= Len(shown.results)
    /\ SubSeq(shown.merged, 1, Len(shown.results)) = shown.results
    /\ \A i \in 1..Len(Appended) :
         /\ Appended[i].hasFile
         /\ \E k \in 1..Len(vault) : Appended[i].file = vault[k]
         /\ Appended[i].match.matched
         /\ Appended[i].match = AcronymResultOf(Appended[i].file)
         /\ Appended[i].file.path \notin StandardPaths
    /\ \A i, j \in 1..Len(Appended) :
         i # j => Appended[i].file.path # Appended[j].file.path

\* C7 witness: the standard results hold an unresolved link and a file that
\* matches the acronym query, and acronym results were appended.
C7_Witness ==
  /\ Merged
  /\ Appended # <<>>
  /\ \E i \in 1..Len(shown.results) : ~shown.results[i].hasFile
  /\ \E i \in 1..Len(shown.results) :
       shown.results[i].hasFile /\ AcronymResultOf(shown.results[i].file).matched

\* The vault's files that match the acronym query and are not in the standard
\* results.
AcronymOnly ==
  {k \in 1..Len(vault) :
     AcronymResultOf(vault[k]).matched /\ vault[k].path \notin StandardPaths}

\* C8 (as stated): the merged list holds exactly min(50, N) acronym-only
\* results, N being the number of files that match and are not in the standard
\* results; they are the highest-scoring of those, in descending score order.
C8_CapOnAcronymOnly ==
  Merged =>
    /\ Len(Appended) = Min(maxAcronymResults, Cardinality(AcronymOnly))
    /\ \A i \in 1..Len(Appended) : \A k \in AcronymOnly :
         \/ \E j \in 1..Len(Appended) : Appended[j].file = vault[k]
         \/ Leq(AcronymResultOf(vault[k]).score, Appended[i].match.score)
    /\ \A i \in 1..(Len(Appended) - 1) :
         Leq(Appended[i + 1].match.score, Appended[i].match.score)

====
